---- MODULE Spec2Model ----
(***************************************************************************)
(* Model of powo_syno.py: for each row of a species table, resolve an IPNI *)
(* identifier (fetch_ipni_id), build the POWO taxon URL, extract the       *)
(* synonym list of that page (fetch_synonyms_from_powo) and write one      *)
(* record per row to the output table (main).                              *)
(*                                                                         *)
(* Python strings are sequences of characters, so that strip, split and    *)
(* join are computed and not assumed.  A character is a one-character      *)
(* string; a character that cannot be written in a string of this          *)
(* language (anything but printable ASCII, \t, \n, \f, \r) is the name of  *)
(* its code point, "U+00A0".  Python values that may be None are tagged    *)
(* records.  The two remote sites are the environment:     *)
(* every call draws its HTTP outcome from a bounded set of responses.      *)
(***************************************************************************)
EXTENDS Naturals, Sequences, FiniteSets

(* ---------------------------- bounds ---------------------------------- *)
MaxRows == 2        \* rows of the input table
MaxResults == 2     \* elements of the registry's "results" list
MaxItems == 1       \* <li> elements of a generated synonym list

SeqsUpTo(S, n) == UNION {[1..k -> S] : k \in 0..n}

(* ------------------------- Python values ------------------------------ *)
None == [tag |-> "None"]
PyStr(s) == [tag |-> "str", v |-> s]
PyList(l) == [tag |-> "list", v |-> l]
NaN == [tag |-> "float"]

\* A mutant of Truthy: the test "is not None".
IsNotNone(x) == x.tag # "None"

\* bool(x) as used by "if not ipni_id" and "if synonyms": None, "" and []
\* are false.
Truthy(x) == x.tag \in {"str", "list"} /\ Len(x.v) > 0

\* The characters str.strip() removes: those for which str.isspace() holds.
Whitespace ==
  {"\t", "\n", "U+000B", "\f", "\r", "U+001C", "U+001D", "U+001E", "U+001F",
   " ", "U+0085", "U+00A0", "U+1680", "U+2000", "U+2001", "U+2002", "U+2003",
   "U+2004", "U+2005", "U+2006", "U+2007", "U+2008", "U+2009", "U+200A",
   "U+2028", "U+2029", "U+202F", "U+205F", "U+3000"}

RECURSIVE LStrip(_)
LStrip(s) == IF s # <<>> /\ Head(s) \in Whitespace THEN LStrip(Tail(s)) ELSE s

RECURSIVE RStrip(_)
RStrip(s) ==
  IF s # <<>> /\ s[Len(s)] \in Whitespace
  THEN RStrip(SubSeq(s, 1, Len(s) - 1)) ELSE s

\* A mutant of Strip: only leading whitespace is removed.
StripLeadingOnly(s) == LStrip(s)

\* str.strip()
Strip(s) == RStrip(LStrip(s))

\* str.split(d): the segments between the occurrences of the delimiter,
\* always at least one.
RECURSIVE Split(_, _)
Split(s, d) ==
  IF \A i \in 1..Len(s) : s[i] # d THEN <<s>>
  ELSE LET k == CHOOSE i \in 1..Len(s) :
                  s[i] = d /\ \A j \in 1..(i - 1) : s[j] # d
       IN <<SubSeq(s, 1, k - 1)>> \o Split(SubSeq(s, k + 1, Len(s)), d)

\* seq[-1]
Last(seq) == seq[Len(seq)]

\* sep.join(items)
RECURSIVE Join(_, _)
Join(sep, items) ==
  IF items = <<>> THEN <<>>
  ELSE IF Len(items) = 1 THEN items[1]
  ELSE items[1] \o sep \o Join(sep, Tail(items))

(* ------------------------ string constants ---------------------------- *)
URL_TEMPLATE == <<"h", "t", "t", "p", "s", ":", "/", "/", "p", "o", "w", "o", ".", "s", "c", "i", "e", "n", "c", "e", ".", "k", "e", "w", ".", "o", "r", "g", "/", "t", "a", "x", "o", "n", "/", "u", "r", "n", ":", "l", "s", "i", "d", ":", "i", "p", "n", "i", ".", "o", "r", "g", ":", "n", "a", "m", "e", "s", ":">>
NOT_FOUND == <<"N", "o", "t", " ", "F", "o", "u", "n", "d">>
NONE_TEXT == <<"N", "o", "n", "e">>
SEP == <<";", " ">>

(* ---------------------- the registry (IPNI) --------------------------- *)
ID_PREFIX == <<"u", "r", "n", ":", "l", "s", "i", "d", ":", "i", "p", "n", "i", ".", "o", "r", "g", ":", "n", "a", "m", "e", "s", ":">>
D12345 == <<"1", "2", "3", "4", "5">>

\* "id" values of a search result: a full LSID, an id without any colon, and
\* an id that ends in a colon.
IdStrings == {ID_PREFIX \o D12345, D12345, ID_PREFIX}

\* One element of "results": an object with or without an "id" member.
ResultElements ==
  {[has_id |-> TRUE, id |-> s] : s \in IdStrings} \cup {[has_id |-> FALSE]}

\* What requests.get + raise_for_status + json() can produce.
IpniResponses ==
  {[outcome |-> "ConnectionError"], [outcome |-> "HTTPError"],
   [outcome |-> "JSONDecodeError"],
   [outcome |-> "ok", has_results |-> FALSE]}
  \cup {[outcome |-> "ok", has_results |-> TRUE, results |-> r] :
          r \in SeqsUpTo(ResultElements, MaxResults)}

\* A mutant of fetch_ipni_id: the identifier is taken from the last result.
fetch_ipni_id_last(resp) ==
  IF resp.outcome # "ok" THEN None
  ELSE IF resp.has_results /\ Len(resp.results) > 0
       THEN IF Last(resp.results).has_id
            THEN PyStr(Last(Split(Last(resp.results).id, ":")))
            ELSE None
       ELSE None

\* fetch_ipni_id, given the outcome of its one GET.
fetch_ipni_id(resp) ==
  IF resp.outcome # "ok" THEN None                      \* except: return None
  ELSE IF resp.has_results /\ Len(resp.results) > 0
       THEN IF resp.results[1].has_id
            THEN PyStr(Last(Split(resp.results[1].id, ":")))
            ELSE None                                   \* KeyError, caught
       ELSE None

(* ------------------------ the taxon page (POWO) ----------------------- *)
LiTexts == {<<"A">>, <<"\r", "\n", " ", "B", "U+00A0", "\n">>}

Section(i, u) == [id |-> i, uls |-> u]
UL(c, l) == [class |-> c, lis |-> l]

\* The item texts of the generated synonym lists.
SynonymLists == SeqsUpTo(LiTexts, MaxItems)

\* A page whose first section and first list are not the ones looked for.
TwoSectionDoc ==
  << Section("distribution", <<UL("c-synonym-list", << <<"A">> >>)>>),
     Section("synonyms",
             << UL("other", << <<"A">> >>),
                UL("c-synonym-list", << <<"A">>, <<" ", "B", "\n">> >>) >>) >>

\* Parsed pages, as the sections of the document in order: no section, only
\* another section, the section without a list, with another list, with
\* the synonym list.
Docs ==
  { <<>>,
    <<Section("distribution", <<UL("c-synonym-list", << <<"A">> >>)>>)>>,
    <<Section("synonyms", <<>>)>>,
    <<Section("synonyms", <<UL("other", << <<"A">> >>)>>)>>,
    TwoSectionDoc }
  \cup {<<Section("synonyms", <<UL("c-synonym-list", l)>>)>> :
          l \in SynonymLists}

PowoResponses ==
  {[outcome |-> "ConnectionError"], [outcome |-> "HTTPError"]}
  \cup {[outcome |-> "ok", doc |-> d] : d \in Docs}

\* soup.find('section', id='synonyms'): index of the first match, 0 if none.
FindSection(doc) ==
  IF \E i \in 1..Len(doc) : doc[i].id = "synonyms"
  THEN CHOOSE i \in 1..Len(doc) :
         doc[i].id = "synonyms" /\ \A j \in 1..(i - 1) : doc[j].id # "synonyms"
  ELSE 0

\* section.find('ul', class_='c-synonym-list'): index of the first match.
FindList(uls) ==
  IF \E i \in 1..Len(uls) : uls[i].class = "c-synonym-list"
  THEN CHOOSE i \in 1..Len(uls) :
         uls[i].class = "c-synonym-list"
         /\ \A j \in 1..(i - 1) : uls[j].class # "c-synonym-list"
  ELSE 0

\* A mutant of fetch_synonyms_from_powo: a missing section or list gives [].
fetch_synonyms_empty_list(resp) ==
  IF resp.outcome # "ok" THEN None
  ELSE LET s == FindSection(resp.doc) IN
       IF s = 0 THEN PyList(<<>>)
       ELSE LET u == FindList(resp.doc[s].uls) IN
            IF u = 0 THEN PyList(<<>>)
            ELSE LET lis == resp.doc[s].uls[u].lis IN
                 PyList([k \in 1..Len(lis) |-> Strip(lis[k])])

\* fetch_synonyms_from_powo, given the outcome of its one GET.
fetch_synonyms_from_powo(resp) ==
  IF resp.outcome # "ok" THEN None                      \* except: return None
  ELSE LET s == FindSection(resp.doc) IN
       IF s = 0 THEN None
       ELSE LET u == FindList(resp.doc[s].uls) IN
            IF u = 0 THEN None
            ELSE LET lis == resp.doc[s].uls[u].lis IN
                 PyList([k \in 1..Len(lis) |-> Strip(lis[k])])

(* --------------------------- the input -------------------------------- *)
\* Cells of the Species column as pandas reads them: text (never empty, an
\* empty field is read as NaN) or a float NaN.
Cells ==
  {PyStr(<<" ", "a", " ", "b", "\t", "U+00A0">>), PyStr(<<"U+3000", " ">>), NaN}

\* The output file before the run: missing, or left by an earlier run.
PriorFiles ==
  {[exists |-> FALSE, rows |-> <<>>],
   [exists |-> TRUE,
    rows |-> <<[Species |-> <<"o", "l", "d">>, POWO_URL |-> NOT_FOUND,
                Synonyms |-> NONE_TEXT]>>]}

NoResponse == [outcome |-> "none"]

Event(e, r, x) == [ev |-> e, row |-> r, ret |-> x]

VARIABLES
  has_species,      \* 'Species' in species_df.columns
  species_df,       \* the Species cell of every row, in order
  prior_file,       \* output_csv before the run
  output_csv,       \* the output file
  pc,               \* position in main
  idx,              \* row of the for loop (1-based)
  species_name, ipni_id, powo_url, synonyms, results,   \* locals of main
  ipni_response,    \* what the GET of the running fetch_ipni_id got
  powo_response,    \* what the GET of the running fetch_synonyms_from_powo got
  trace,            \* the calls, appends, sleeps and writes so far
  slept             \* total time spent in time.sleep

vars == <<has_species, species_df, prior_file, output_csv, pc, idx,
          species_name, ipni_id, powo_url, synonyms, results,
          ipni_response, powo_response, trace, slept>>

input == <<has_species, species_df, prior_file>>
locals == <<species_name, ipni_id, powo_url, synonyms, results>>

Init ==
  /\ has_species \in BOOLEAN
  /\ species_df \in SeqsUpTo(Cells, MaxRows)
  /\ prior_file \in PriorFiles
  /\ output_csv = prior_file
  /\ pc = "read_csv"
  /\ idx = 1
  /\ species_name = <<>>
  /\ ipni_id = None
  /\ powo_url = <<>>
  /\ synonyms = None
  /\ results = <<>>
  /\ ipni_response = NoResponse
  /\ powo_response = NoResponse
  /\ trace = <<>>
  /\ slept = 0

\* A mutant of ReadCsv: the column check comes after an (empty) table was
\* written.
ReadCsvWriteFirst ==
  /\ pc = "read_csv"
  /\ IF has_species
     THEN pc' = "for" /\ UNCHANGED output_csv
     ELSE pc' = "ValueError" /\ output_csv' = [exists |-> TRUE, rows |-> <<>>]
  /\ UNCHANGED <<input, idx, locals, ipni_response, powo_response, trace, slept>>

\* pd.read_csv and the required-column check.
ReadCsv ==
  /\ pc = "read_csv"
  /\ pc' = IF has_species THEN "for" ELSE "ValueError"
  /\ UNCHANGED <<input, output_csv, idx, locals, ipni_response,
                 powo_response, trace, slept>>

\* The for statement: the next row, or the end of the loop.
ForNext ==
  /\ pc = "for"
  /\ pc' = IF idx <= Len(species_df) THEN "strip" ELSE "save"
  /\ UNCHANGED <<input, output_csv, idx, locals, ipni_response,
                 powo_response, trace, slept>>

\* species_name = row['Species'].strip(); a float has no strip().
StripName ==
  /\ pc = "strip"
  /\ IF species_df[idx].tag = "str"
     THEN /\ species_name' = Strip(species_df[idx].v)
          /\ pc' = "resolve"
     ELSE /\ pc' = "AttributeError"
          /\ UNCHANGED species_name
  /\ UNCHANGED <<input, output_csv, idx, ipni_id, powo_url, synonyms, results,
                 ipni_response, powo_response, trace, slept>>

\* A mutant of Resolve: a failed GET is tried once more.
ResolveRetry ==
  /\ pc = "resolve"
  /\ \E resp \in IpniResponses :
       /\ ipni_response' = resp
       /\ ipni_id' = fetch_ipni_id(resp)
       /\ trace' = trace
            \o (IF resp.outcome = "ok" THEN <<>>
                ELSE <<Event("GET ipni", idx, None)>>)
            \o <<Event("GET ipni", idx, None),
                 Event("fetch_ipni_id", idx, fetch_ipni_id(resp))>>
  /\ pc' = "check_id"
  /\ UNCHANGED <<input, output_csv, idx, species_name, powo_url, synonyms,
                 results, powo_response, slept>>

\* ipni_id = fetch_ipni_id(species_name): one GET, then the result.
Resolve ==
  /\ pc = "resolve"
  /\ \E resp \in IpniResponses :
       /\ ipni_response' = resp
       /\ ipni_id' = fetch_ipni_id(resp)
       /\ trace' = trace \o <<Event("GET ipni", idx, None),
                              Event("fetch_ipni_id", idx, fetch_ipni_id(resp))>>
  /\ pc' = "check_id"
  /\ UNCHANGED <<input, output_csv, idx, species_name, powo_url, synonyms,
                 results, powo_response, slept>>

\* A mutant of NotFound: the "continue" is missing, the row falls through to
\* the extraction.
NotFoundFallsThrough ==
  /\ pc = "check_id"
  /\ ~Truthy(ipni_id)
  /\ results' = Append(results, [Species |-> species_name,
                                 POWO_URL |-> NOT_FOUND,
                                 Synonyms |-> NONE_TEXT])
  /\ trace' = Append(trace, Event("append", idx, None))
  /\ pc' = "extract"
  /\ ipni_response' = NoResponse
  /\ UNCHANGED <<input, output_csv, idx, species_name, ipni_id, powo_url,
                 synonyms, powo_response, slept>>

\* A mutant of NotFound: the delay is taken on this branch too.
NotFoundSleeps ==
  /\ pc = "check_id"
  /\ ~Truthy(ipni_id)
  /\ results' = Append(results, [Species |-> species_name,
                                 POWO_URL |-> NOT_FOUND,
                                 Synonyms |-> NONE_TEXT])
  /\ trace' = trace \o <<Event("append", idx, None), Event("sleep", idx, None)>>
  /\ slept' = slept + 2
  /\ idx' = idx + 1
  /\ pc' = "for"
  /\ ipni_response' = NoResponse
  /\ UNCHANGED <<input, output_csv, species_name, ipni_id, powo_url, synonyms,
                 powo_response>>

\* "if not ipni_id": the sentinel record, then continue.
NotFound ==
  /\ pc = "check_id"
  /\ ~Truthy(ipni_id)
  /\ results' = Append(results, [Species |-> species_name,
                                 POWO_URL |-> NOT_FOUND,
                                 Synonyms |-> NONE_TEXT])
  /\ trace' = Append(trace, Event("append", idx, None))
  /\ idx' = idx + 1
  /\ pc' = "for"
  /\ ipni_response' = NoResponse
  /\ UNCHANGED <<input, output_csv, species_name, ipni_id, powo_url, synonyms,
                 powo_response, slept>>

\* powo_url = f"https://powo.science.kew.org/taxon/urn:lsid:ipni.org:names:{ipni_id}"
BuildUrl ==
  /\ pc = "check_id"
  /\ Truthy(ipni_id)
  /\ powo_url' = URL_TEMPLATE \o ipni_id.v
  /\ pc' = "extract"
  /\ ipni_response' = NoResponse
  /\ UNCHANGED <<input, output_csv, idx, species_name, ipni_id, synonyms,
                 results, powo_response, trace, slept>>

\* synonyms = fetch_synonyms_from_powo(powo_url): one GET, then the result.
Extract ==
  /\ pc = "extract"
  /\ \E resp \in PowoResponses :
       /\ powo_response' = resp
       /\ synonyms' = fetch_synonyms_from_powo(resp)
       /\ trace' = trace \o <<Event("GET powo", idx, None),
                              Event("fetch_synonyms_from_powo", idx,
                                    fetch_synonyms_from_powo(resp))>>
  /\ pc' = "append"
  /\ UNCHANGED <<input, output_csv, idx, species_name, ipni_id, powo_url,
                 results, ipni_response, slept>>

\* A mutant of SynonymsField: the sentinel is used for None only.
SynonymsFieldNoneOnly(syn) ==
  IF syn.tag = "list" THEN Join(SEP, syn.v) ELSE NONE_TEXT

\* '; '.join(synonyms) if synonyms else "None"
SynonymsField(syn) == IF Truthy(syn) THEN Join(SEP, syn.v) ELSE NONE_TEXT

\* results.append({...}) of a resolved row.
AppendResult ==
  /\ pc = "append"
  /\ results' = Append(results, [Species |-> species_name,
                                 POWO_URL |-> powo_url,
                                 Synonyms |-> SynonymsField(synonyms)])
  /\ trace' = Append(trace, Event("append", idx, None))
  /\ pc' = "sleep"
  /\ powo_response' = NoResponse
  /\ UNCHANGED <<input, output_csv, idx, species_name, ipni_id, powo_url,
                 synonyms, ipni_response, slept>>

SLEEP_SECONDS == 2

\* time.sleep(2), then the next iteration.
Sleep ==
  /\ pc = "sleep"
  /\ trace' = Append(trace, Event("sleep", idx, None))
  /\ slept' = slept + SLEEP_SECONDS
  /\ idx' = idx + 1
  /\ pc' = "for"
  /\ UNCHANGED <<input, output_csv, locals, ipni_response, powo_response>>

\* pd.DataFrame(results).to_csv(output_csv, index=False)
Save ==
  /\ pc = "save"
  /\ output_csv' = [exists |-> TRUE, rows |-> results]
  /\ trace' = Append(trace, Event("to_csv", 0, None))
  /\ pc' = "done"
  /\ UNCHANGED <<input, idx, locals, ipni_response, powo_response, slept>>

Next ==
  \/ ReadCsv
  \/ ForNext
  \/ StripName
  \/ Resolve
  \/ NotFound
  \/ BuildUrl
  \/ Extract
  \/ AppendResult
  \/ Sleep
  \/ Save

Spec == Init /\ [][Next]_vars

(* ------------------- vocabulary of the properties --------------------- *)
EventsAt(e) == {k \in DOMAIN trace : trace[k].ev = e}
Count(e) == Cardinality(EventsAt(e))
CountFor(e, r) ==
  Cardinality({k \in DOMAIN trace : trace[k].ev = e /\ trace[k].row = r})

\* The record of row r has been appended.
Recorded(r) == r \in 1..Len(results)

\* The white space of Unicode, by code point: the ASCII controls 9-13 and
\* 28-31, the space, NEL, NBSP, and the Unicode space separators.
SpaceChars ==
  {"\t", "\n", "\f", "\r", " "}
  \cup {"U+000B", "U+001C", "U+001D", "U+001E", "U+001F", "U+0085", "U+00A0"}
  \cup {"U+1680", "U+2028", "U+2029", "U+202F", "U+205F", "U+3000"}
  \cup {"U+2000", "U+2001", "U+2002", "U+2003", "U+2004", "U+2005", "U+2006",
        "U+2007", "U+2008", "U+2009", "U+200A"}

\* t is s without its leading and trailing whitespace.
IsTrimOf(t, s) ==
  \E i \in 0..Len(s) : \E j \in i..Len(s) :
    /\ t = SubSeq(s, i + 1, j)
    /\ \A k \in 1..i : s[k] \in SpaceChars
    /\ \A k \in (j + 1)..Len(s) : s[k] \in SpaceChars
    /\ t = <<>> \/ (t[1] \notin SpaceChars /\ t[Len(t)] \notin SpaceChars)

\* t is what follows the last colon of s (all of s if it has none).
IsLastSegment(t, s) ==
  /\ \A i \in 1..Len(t) : t[i] # ":"
  /\ \E n \in 0..Len(s) :
       /\ t = SubSeq(s, n + 1, Len(s))
       /\ n = 0 \/ s[n] = ":"

NonEmptyId(x) == x.tag = "str" /\ x.v # <<>>

Ended == pc \in {"done", "ValueError", "AttributeError"}

(* ------------------------------- C1 ----------------------------------- *)
\* C1: a run that completes has written the output exactly once, as its last
\* step and after one append per row; the output holds one record per input
\* row, in input order, whose Species is the trimmed Species of that row.
\* Nothing is written before.
C1_OneRecordPerRowInOrder ==
  /\ pc # "done" => (Count("to_csv") = 0 /\ output_csv = prior_file)
  /\ pc = "done" =>
       /\ Count("to_csv") = 1
       /\ trace[Len(trace)].ev = "to_csv"
       /\ Count("append") = Len(species_df)
       /\ output_csv.exists
       /\ Len(output_csv.rows) = Len(species_df)
       /\ \A i \in 1..Len(species_df) :
            /\ species_df[i].tag = "str"
            /\ IsTrimOf(output_csv.rows[i].Species, species_df[i].v)
            /\ CountFor("append", i) = 1

C1_Witness ==
  /\ pc = "done"
  /\ Len(species_df) >= 2
  /\ output_csv.rows[1].POWO_URL = NOT_FOUND
  /\ output_csv.rows[2].POWO_URL # NOT_FOUND
  /\ output_csv.rows[2].Species = <<"a", " ", "b">>
  /\ output_csv.rows[2].Species # species_df[2].v
  /\ output_csv.rows[1].Species = <<>>

(* ------------------------------- C2 ----------------------------------- *)
\* C2 as stated: a row whose Resolver call returned None is recorded as
\* "Not Found" / "None" without an Extractor call, and between rows the
\* number of Extractor calls equals the number of Resolver calls that
\* returned an identifier (anything but None).
C2_Original ==
  /\ \A k \in EventsAt("fetch_ipni_id") :
       trace[k].ret = None =>
         /\ CountFor("fetch_synonyms_from_powo", trace[k].row) = 0
         /\ Recorded(trace[k].row) =>
              /\ results[trace[k].row].POWO_URL = NOT_FOUND
              /\ results[trace[k].row].Synonyms = NONE_TEXT
  /\ pc \in {"for", "save", "done"} =>
       Count("fetch_synonyms_from_powo")
         = Cardinality({k \in EventsAt("fetch_ipni_id") : trace[k].ret # None})

\* C2 amended: the same, counting the Resolver calls that returned a
\* non-empty identifier; a call that returned the empty string is handled
\* like one that returned None.
C2_ExtractorOnlyForNonEmptyId ==
  /\ \A k \in EventsAt("fetch_ipni_id") :
       ~NonEmptyId(trace[k].ret) =>
         /\ CountFor("fetch_synonyms_from_powo", trace[k].row) = 0
         /\ Recorded(trace[k].row) =>
              /\ results[trace[k].row].POWO_URL = NOT_FOUND
              /\ results[trace[k].row].Synonyms = NONE_TEXT
  /\ pc \in {"for", "save", "done"} =>
       Count("fetch_synonyms_from_powo")
         = Cardinality({k \in EventsAt("fetch_ipni_id") :
                          NonEmptyId(trace[k].ret)})

C2_Witness ==
  /\ pc = "done"
  /\ \E k \in EventsAt("fetch_ipni_id") :
       trace[k].ret = None /\ results[trace[k].row].POWO_URL = NOT_FOUND
  /\ \E k \in EventsAt("fetch_ipni_id") : NonEmptyId(trace[k].ret)
  /\ Count("fetch_synonyms_from_powo") = 1

(* ------------------------------- C3 ----------------------------------- *)
\* What the Synonyms field must be for an Extractor result x.
ExpectedSynonyms(x) ==
  IF x = None \/ x.v = <<>> THEN <<"N", "o", "n", "e">>
  ELSE Join(<<";", " ">>, x.v)

\* C3 as stated: for every row whose Resolver call returned an identifier d
\* (anything but None), the record has POWO_URL = template + d, and its
\* Synonyms is "None" when the Extractor returned None or no item, else the
\* items joined by "; ".
C3_Original ==
  \A k \in EventsAt("fetch_ipni_id") :
    (trace[k].ret # None /\ Recorded(trace[k].row)) =>
      /\ results[trace[k].row].POWO_URL = URL_TEMPLATE \o trace[k].ret.v
      /\ \A j \in EventsAt("fetch_synonyms_from_powo") :
           trace[j].row = trace[k].row =>
             results[trace[k].row].Synonyms = ExpectedSynonyms(trace[j].ret)

\* C3 amended: the same for every row whose Resolver call returned a
\* non-empty identifier d; such a row has exactly one Extractor result.
C3_RecordOfResolvedRow ==
  \A k \in EventsAt("fetch_ipni_id") :
    (NonEmptyId(trace[k].ret) /\ Recorded(trace[k].row)) =>
      /\ results[trace[k].row].POWO_URL = URL_TEMPLATE \o trace[k].ret.v
      /\ CountFor("fetch_synonyms_from_powo", trace[k].row) = 1
      /\ \A j \in EventsAt("fetch_synonyms_from_powo") :
           trace[j].row = trace[k].row =>
             /\ results[trace[k].row].Synonyms = ExpectedSynonyms(trace[j].ret)
             /\ trace[j].ret = PyList(<< <<"A">>, <<"B">> >>) =>
                  results[trace[k].row].Synonyms = <<"A", ";", " ", "B">>

C3_Witness ==
  /\ pc = "done"
  /\ \E j \in EventsAt("fetch_synonyms_from_powo") :
       /\ trace[j].ret = PyList(<< <<"A">>, <<"B">> >>)
       /\ results[trace[j].row].Synonyms = <<"A", ";", " ", "B">>
  /\ \E j \in EventsAt("fetch_synonyms_from_powo") :
       /\ trace[j].ret = PyList(<<>>)
       /\ results[trace[j].row].Synonyms = NONE_TEXT
       /\ results[trace[j].row].POWO_URL # NOT_FOUND

(* ------------------------------- C4 ----------------------------------- *)
\* C4: with a Species column no row aborts the batch: a run that has ended
\* has written the output with a record for every input row; only the
\* missing-column error ends a run without output.
C4_OutputForEveryRow ==
  Ended =>
    IF has_species
    THEN /\ pc = "done"
         /\ Count("to_csv") = 1
         /\ Len(output_csv.rows) = Len(species_df)
    ELSE pc = "ValueError"

(* ------------------------------- C5 ----------------------------------- *)
\* C5: without a Species column the run goes from reading the table straight
\* to the error: no Resolver call, no Extractor call, no sleep, no record,
\* and the output file stays as it was.
C5_MissingColumnAbortsFirst ==
  ~has_species =>
    /\ pc \in {"read_csv", "ValueError"}
    /\ trace = <<>>
    /\ slept = 0
    /\ results = <<>>
    /\ output_csv = prior_file

C5_Witness ==
  /\ pc = "ValueError"
  /\ ~has_species
  /\ Len(species_df) >= 2
  /\ ~prior_file.exists
  /\ ~output_csv.exists

(* ------------------------------- C6 ----------------------------------- *)
URL_12345 == <<"h", "t", "t", "p", "s", ":", "/", "/", "p", "o", "w", "o", ".", "s", "c", "i", "e", "n", "c", "e", ".", "k", "e", "w", ".", "o", "r", "g", "/", "t", "a", "x", "o", "n", "/", "u", "r", "n", ":", "l", "s", "i", "d", ":", "i", "p", "n", "i", ".", "o", "r", "g", ":", "n", "a", "m", "e", "s", ":", "1", "2", "3", "4", "5">>

\* C6: on a successful response whose results list is non-empty (and whose
\* first element has an id) fetch_ipni_id returns the last colon-separated
\* segment of the first element's id, whatever the later elements are; with
\* results missing or empty it returns None.  The id
\* "urn:lsid:ipni.org:names:12345" gives "12345", and the driver then builds
\* "https://powo.science.kew.org/taxon/urn:lsid:ipni.org:names:12345".
C6_ResolverResult ==
  /\ pc = "check_id" /\ ipni_response.outcome = "ok" =>
       IF ipni_response.has_results /\ ipni_response.results # <<>>
       THEN ipni_response.results[1].has_id =>
              /\ ipni_id.tag = "str"
              /\ IsLastSegment(ipni_id.v, ipni_response.results[1].id)
              /\ ipni_response.results[1].id
                   = <<"u", "r", "n", ":", "l", "s", "i", "d", ":", "i", "p", "n", "i", ".", "o", "r", "g", ":", "n", "a", "m", "e", "s", ":", "1", "2", "3", "4", "5">>
                 => ipni_id = PyStr(<<"1", "2", "3", "4", "5">>)
       ELSE ipni_id = None
  /\ pc = "extract" /\ ipni_id = PyStr(<<"1", "2", "3", "4", "5">>) =>
       powo_url = URL_12345

C6_Witness ==
  /\ pc = "check_id"
  /\ ipni_response.outcome = "ok"
  /\ ipni_response.has_results
  /\ Len(ipni_response.results) >= 2
  /\ ipni_response.results[1] = [has_id |-> TRUE, id |-> ID_PREFIX \o D12345]
  /\ ipni_response.results[2] = [has_id |-> TRUE, id |-> ID_PREFIX]
  /\ ipni_id = PyStr(D12345)

(* ------------------------------- C7 ----------------------------------- *)
\* C7: every sleep directly follows the append of the same row, that row had
\* an Extractor call, and what follows the sleep belongs to the next row; a
\* row has at most one sleep, a finished row with an Extractor call has
\* exactly one, a row whose Resolver call returned None has none.  In a
\* completed run the number of sleeps (2 units each) is the number of output
\* rows whose POWO_URL is not "Not Found".
C7_Pacing ==
  /\ \A k \in EventsAt("sleep") :
       /\ k > 1
       /\ trace[k - 1] = Event("append", trace[k].row, None)
       /\ CountFor("fetch_synonyms_from_powo", trace[k].row) = 1
       /\ k < Len(trace) =>
            \/ trace[k + 1].ev = "to_csv"
            \/ trace[k + 1] = Event("GET ipni", trace[k].row + 1, None)
  /\ \A r \in 1..Len(species_df) :
       /\ CountFor("sleep", r) <= 1
       /\ (r < idx /\ CountFor("fetch_synonyms_from_powo", r) = 1) =>
            CountFor("sleep", r) = 1
       /\ (\E k \in EventsAt("fetch_ipni_id") :
             trace[k].row = r /\ trace[k].ret = None) =>
            CountFor("sleep", r) = 0
  /\ slept = 2 * Count("sleep")
  /\ pc = "done" =>
       Count("sleep") = Cardinality({i \in 1..Len(output_csv.rows) :
                                       output_csv.rows[i].POWO_URL # NOT_FOUND})

C7_Witness ==
  /\ pc = "done"
  /\ Len(output_csv.rows) >= 2
  /\ output_csv.rows[1].POWO_URL = NOT_FOUND
  /\ output_csv.rows[2].POWO_URL # NOT_FOUND
  /\ synonyms = None
  /\ Count("sleep") = 1
  /\ slept = 2

(* ------------------------------- C8 ----------------------------------- *)
\* C8: fetch_synonyms_from_powo returns None exactly when the fetch failed,
\* or the page has no section with id "synonyms", or the first such section
\* has no list with class "c-synonym-list"; otherwise it returns a list (an
\* empty one for an empty list element) holding the trimmed text of every
\* item of the first such list, in document order.
C8_ExtractorAbsence ==
  pc = "append" =>
    IF powo_response.outcome # "ok" THEN synonyms = None
    ELSE LET doc == powo_response.doc
             secs == {i \in 1..Len(doc) : doc[i].id = "synonyms"}
         IN IF secs = {} THEN synonyms = None
            ELSE LET s == CHOOSE i \in secs : \A j \in secs : i <= j
                     uls == {i \in 1..Len(doc[s].uls) :
                               doc[s].uls[i].class = "c-synonym-list"}
                 IN IF uls = {} THEN synonyms = None
                    ELSE LET u == CHOOSE i \in uls : \A j \in uls : i <= j
                             lis == doc[s].uls[u].lis
                         IN /\ synonyms.tag = "list"
                            /\ Len(synonyms.v) = Len(lis)
                            /\ \A k \in 1..Len(lis) :
                                 IsTrimOf(synonyms.v[k], lis[k])

C8_Witness ==
  /\ pc = "append"
  /\ idx = 2
  /\ \E k \in EventsAt("fetch_synonyms_from_powo") :
       trace[k].row = 1 /\ trace[k].ret = PyList(<< <<"A">>, <<"B">> >>)
  /\ powo_response.outcome = "ok"
  /\ powo_response.doc =
       <<[id |-> "synonyms",
          uls |-> <<[class |-> "other", lis |-> << <<"A">> >>]>>]>>
  /\ synonyms = None

(* ------------------------------- C9 ----------------------------------- *)
CallEvents ==
  {"GET ipni", "fetch_ipni_id", "GET powo", "fetch_synonyms_from_powo"}

\* C9: per row at most one Resolver call and at most one Extractor call,
\* each with exactly one GET; a finished row had exactly one Resolver call;
\* the Extractor's GET of a row comes after the Resolver of that row has
\* returned; the calls are in row order; at most two GETs per row in all.
C9_OneCallPerRowNoRetry ==
  /\ \A r \in 1..Len(species_df) :
       /\ CountFor("fetch_ipni_id", r) <= 1
       /\ CountFor("fetch_synonyms_from_powo", r) <= 1
       /\ CountFor("GET ipni", r) = CountFor("fetch_ipni_id", r)
       /\ CountFor("GET powo", r) = CountFor("fetch_synonyms_from_powo", r)
       /\ r < idx => CountFor("fetch_ipni_id", r) = 1
  /\ \A k \in EventsAt("GET ipni") :
       trace[k + 1].ev = "fetch_ipni_id" /\ trace[k + 1].row = trace[k].row
  /\ \A k \in EventsAt("GET powo") :
       /\ trace[k + 1].ev = "fetch_synonyms_from_powo"
       /\ trace[k + 1].row = trace[k].row
       /\ \E j \in 1..(k - 1) :
            trace[j].ev = "fetch_ipni_id" /\ trace[j].row = trace[k].row
  /\ \A j, k \in DOMAIN trace :
       (j < k /\ trace[j].ev \in CallEvents /\ trace[k].ev \in CallEvents) =>
         trace[j].row <= trace[k].row
  /\ Count("GET ipni") + Count("GET powo") <= 2 * Len(species_df)

C9_Witness ==
  /\ pc = "done"
  /\ Len(species_df) >= 2
  /\ Count("GET ipni") = Len(species_df)
  /\ Count("GET powo") = 1
  /\ trace[2].ret = None
  /\ results[1].POWO_URL = NOT_FOUND

(* ------------------------------- C10 ---------------------------------- *)
\* C10 as stated: a record is "Not Found" only when the Resolver returned
\* None; for every string it returned, the empty one included, the record
\* holds the URL built from it and the Extractor was called for the row.
C10_Original ==
  \A k \in EventsAt("fetch_ipni_id") :
    Recorded(trace[k].row) =>
      IF trace[k].ret = None
      THEN results[trace[k].row].POWO_URL = NOT_FOUND
      ELSE /\ results[trace[k].row].POWO_URL # NOT_FOUND
           /\ results[trace[k].row].POWO_URL = URL_TEMPLATE \o trace[k].ret.v
           /\ CountFor("GET powo", trace[k].row) = 1

\* C10 amended: a record is "Not Found" exactly when the Resolver returned
\* None or the empty string; for every non-empty string it returned the
\* record holds the URL built from it and the Extractor was called.
C10_NotFoundIffNoneOrEmpty ==
  \A k \in EventsAt("fetch_ipni_id") :
    Recorded(trace[k].row) =>
      IF trace[k].ret = None \/ trace[k].ret = PyStr(<<>>)
      THEN /\ results[trace[k].row].POWO_URL = NOT_FOUND
           /\ CountFor("GET powo", trace[k].row) = 0
      ELSE /\ results[trace[k].row].POWO_URL # NOT_FOUND
           /\ results[trace[k].row].POWO_URL = URL_TEMPLATE \o trace[k].ret.v
           /\ CountFor("GET powo", trace[k].row) = 1

C10_Witness ==
  /\ pc = "done"
  /\ \E k \in EventsAt("fetch_ipni_id") :
       /\ trace[k].ret = PyStr(<<>>)
       /\ results[trace[k].row].POWO_URL = NOT_FOUND
  /\ \E k \in EventsAt("fetch_ipni_id") :
       /\ trace[k].ret = PyStr(D12345)
       /\ results[trace[k].row].POWO_URL = URL_12345

====
